---- MODULE Spec2Model ----
(***************************************************************************)
(* Model of iocraft's use_terminal_events hook                             *)
(* (packages/iocraft/src/hooks/use_terminal_events.rs).                    *)
(*                                                                         *)
(* One component instance owns one hook slot holding UseTerminalEventsImpl *)
(* { events: Option<TerminalEvents>, f: Box<dyn FnMut(TerminalEvent)> }.   *)
(* The hook host, the acquisition factory (ComponentUpdater::              *)
(* terminal_events), the TerminalEvents stream and the render loop live    *)
(* outside this file; they are modelled at their interface.                *)
(***************************************************************************)
EXTENDS Integers, Sequences, FiniteSets, TLC

\* ---------------------------------------------------------------- bounds
MaxEvents == 3      \* events the upstream producer emits before it ends
MaxRenders == 3     \* renders (and commits) of the component instance
MaxPeerEvents == 1  \* events emitted on the second instance's stream
MaxPeerRenders == 2 \* renders (and commits) of the second instance

EventVals == {"A", "B"}

\* Option<T>: None is the empty sequence, Some(x) the sequence of x alone.
None == <<>>
Some(x) == <<x>>

\* The hook slot of the instance: empty, or Some(UseTerminalEventsImpl)
NoHook == <<>>

VARIABLES
    lifecycle,     \* "new" | "mounted" | "unmounted" : the component instance
    hook,          \* NoHook or Some([events, f]) : UseTerminalEventsImpl
    rt,            \* the runtime side of ComponentUpdater::terminal_events
    source,        \* events the upstream producer has still to emit
    producerDone,  \* the upstream producer has shut down
    emitted,       \* history: every event the producer emitted, in order
    delivered,     \* history: every callback invocation [f, event], in order
    flag,          \* the state the callback sets (should_exit in the test)
    frames,        \* one entry per render: the value of flag it rendered
    pc,            \* "render" | "commit" | "wait" | "done"
    lastPoll,      \* what the latest invocation of poll_change did
    obs,           \* history flags and marks used to state the properties
    woken,         \* the scheduler has a poll of the hook outstanding
    peer           \* a second component instance with its own hook and stream

vars == <<lifecycle, hook, rt, source, producerDone, emitted, delivered,
          flag, frames, pc, lastPoll, obs, woken, peer>>

\* ------------------------------------------------------------ the stream
\* A fresh subscription: nothing buffered, closed iff the producer is gone.
NewHandle(id, done) ==
    [id |-> id, pending |-> <<>>, closed |-> done, waker |-> FALSE]

\* Stream::poll_next on TerminalEvents: Ready(Some(e)) | Pending | Ready(None)
poll_next(h) ==
    IF h.pending # <<>>
    THEN [res |-> "ReadySome", event |-> Some(Head(h.pending)),
          h |-> [h EXCEPT !.pending = Tail(@)]]
    ELSE IF h.closed
    THEN [res |-> "ReadyNone", event |-> None, h |-> h]
    ELSE [res |-> "Pending", event |-> None, h |-> [h EXCEPT !.waker = TRUE]]

\* The producer pushes one event to a subscriber and takes its waker.
push_event(h, e) ==
    [h EXCEPT !.pending = Append(@, e), !.waker = FALSE]

\* ComponentUpdater::terminal_events: the handle on the first call of an
\* instance whose runtime supports terminal events, None on every other call.
terminal_events(updater, done) ==
    IF updater.available /\ ~updater.handedOut
    THEN [ret |-> Some(NewHandle(updater.calls + 1, done)),
          updater |-> [updater EXCEPT !.handedOut = TRUE, !.calls = @ + 1]]
    ELSE [ret |-> None,
          updater |-> [updater EXCEPT !.calls = @ + 1]]

\* --------------------------------------------------------------- the hook
\* Hooks::use_hook: the state of the slot, created by init on first use only.
use_hook(slot, init) ==
    IF slot = NoHook THEN Some(init) ELSE slot

use_terminal_events_eager(slot, f) ==
    use_hook(slot, [events |-> Some(NewHandle(0, FALSE)), f |-> f])

use_terminal_events_replace(slot, f) ==
    Some([events |-> None, f |-> f])

\* use_terminal_events(f): use_hook(|| UseTerminalEventsImpl {None, f})
use_terminal_events(slot, f) ==
    use_hook(slot, [events |-> None, f |-> f])

\* The while-let loop of poll_change: poll the held handle and invoke the
\* callback (recorded in got) for as long as it answers Ready(Some(event)).
RECURSIVE drain_skip(_, _, _)
drain_skip(events, got, polls) ==
    IF events = None
    THEN [events |-> None, got |-> got, polls |-> polls, last |-> "NoHandle"]
    ELSE LET r == poll_next(events[1]) IN
         IF r.res = "ReadySome"
         THEN LET r2 == poll_next(r.h) IN
              IF r2.res = "ReadySome"
              THEN drain_skip(Some(r2.h), Append(got, r2.event[1]), polls + 2)
              ELSE drain_skip(Some(r.h), Append(got, r.event[1]), polls + 1)
         ELSE [events |-> Some(r.h), got |-> got, polls |-> polls + 1,
               last |-> r.res]

RECURSIVE drain_forget(_, _, _)
drain_forget(events, got, polls) ==
    IF events = None
    THEN [events |-> None, got |-> got, polls |-> polls, last |-> "NoHandle"]
    ELSE LET r == poll_next(events[1]) IN
         IF r.res = "ReadySome"
         THEN drain_forget(Some(r.h), Append(got, r.event[1]), polls + 1)
         ELSE [events |-> IF r.res = "ReadyNone" THEN None ELSE Some(r.h),
               got |-> got, polls |-> polls + 1, last |-> r.res]

drain_once(events, got, polls) ==
    IF events = None
    THEN [events |-> None, got |-> got, polls |-> polls, last |-> "NoHandle"]
    ELSE LET r == poll_next(events[1]) IN
         IF r.res = "ReadySome"
         THEN [events |-> Some(r.h), got |-> Append(got, r.event[1]),
               polls |-> polls + 1, last |-> r.res]
         ELSE [events |-> Some(r.h), got |-> got, polls |-> polls + 1,
               last |-> r.res]

RECURSIVE drain(_, _, _)
drain(events, got, polls) ==
    IF events = None
    THEN [events |-> None, got |-> got, polls |-> polls, last |-> "NoHandle"]
    ELSE LET r == poll_next(events[1]) IN
         IF r.res = "ReadySome"
         THEN drain(Some(r.h), Append(got, r.event[1]), polls + 1)
         ELSE [events |-> Some(r.h), got |-> got, polls |-> polls + 1,
               last |-> r.res]

\* The value poll_change returns after the loop.
poll_result_changed(got) ==
    IF got # <<>> THEN "Ready" ELSE "Pending"

poll_result(got) ==
    "Pending"

poll_change_shared(self) ==
    LET mine == IF hook # NoHook THEN hook[1].events ELSE self.events
        d == drain(mine, <<>>, 0) IN
    [self |-> [self EXCEPT !.events = d.events],
     got |-> d.got, polls |-> d.polls, last |-> d.last,
     ret |-> poll_result(d.got)]

poll_change_absent_ready(self) ==
    IF self.events = None
    THEN [self |-> self, got |-> <<>>, polls |-> 0, last |-> "NoHandle",
          ret |-> "Ready"]
    ELSE LET d == drain(self.events, <<>>, 0) IN
         [self |-> [self EXCEPT !.events = d.events],
          got |-> d.got, polls |-> d.polls, last |-> d.last,
          ret |-> poll_result(d.got)]

\* poll_change as a function of the hook state
poll_change(self) ==
    LET d == drain(self.events, <<>>, 0) IN
    [self |-> [self EXCEPT !.events = d.events],
     got |-> d.got, polls |-> d.polls, last |-> d.last,
     ret |-> poll_result(d.got)]

\* post_component_update as a function of the hook state and the updater
post_component_update_inverted(self, updater, done) ==
    IF self.events # None
    THEN LET a == terminal_events(updater, done) IN
         [self |-> [self EXCEPT !.events = a.ret], updater |-> a.updater,
          called |-> TRUE]
    ELSE [self |-> self, updater |-> updater, called |-> FALSE]

post_component_update_once(self, updater, done) ==
    IF self.events = None /\ updater.calls = 0
    THEN LET a == terminal_events(updater, done) IN
         [self |-> [self EXCEPT !.events = a.ret], updater |-> a.updater,
          called |-> TRUE]
    ELSE [self |-> self, updater |-> updater, called |-> FALSE]

post_component_update_always(self, updater, done) ==
    LET a == terminal_events(updater, done) IN
    [self |-> [self EXCEPT !.events = a.ret], updater |-> a.updater,
     called |-> TRUE]

post_component_update(self, updater, done) ==
    IF self.events = None
    THEN LET a == terminal_events(updater, done) IN
         [self |-> [self EXCEPT !.events = a.ret], updater |-> a.updater,
          called |-> TRUE]
    ELSE [self |-> self, updater |-> updater, called |-> FALSE]

\* Dropping UseTerminalEventsImpl drops the handle and the callback it owns.
drop_leak(self) == Some(self)

drop_hook(self) == NoHook

\* The callbacks of one invocation of poll_change, appended to the history
Calls(f, got) == [i \in 1..Len(got) |-> [f |-> f, event |-> got[i]]]

Held == hook # NoHook /\ hook[1].events # None

\* The held handle (meaningful when Held)
Handle == hook[1].events[1]


\* All sequences over S of length at most n
SeqsUpTo(S, n) == UNION {[1..k -> S] : k \in 0..n}

NoPoll == [ret |-> "NotCalled", held |-> FALSE, avail |-> <<>>, got |-> <<>>,
           polls |-> 0, last |-> "NoHandle"]

ObsInit == [acqAt |-> -1, dropAt |-> -1, dropped |-> <<>>, postUpdates |-> 0,
            exhaustedSeen |-> FALSE, failedAcq |-> FALSE,
            tickAfterEx |-> FALSE, updateAfterEx |-> FALSE,
            tickAfterFail |-> FALSE, updateAfterFail |-> FALSE]

\* The marks a post_component_update leaves; u is its outcome.
ObsAfterUpdate(u) ==
    [obs EXCEPT
        !.postUpdates = @ + 1,
        !.acqAt = IF @ = -1 /\ u.called /\ u.self.events # None
                  THEN Len(emitted) ELSE @,
        !.failedAcq = @ \/ (u.called /\ u.self.events = None),
        !.updateAfterEx = @ \/ obs.exhaustedSeen,
        !.updateAfterFail = @ \/ obs.failedAcq]

\* The marks an invocation of poll_change leaves; p is its outcome.
ObsAfterPoll(p) ==
    [obs EXCEPT
        !.exhaustedSeen = @ \/ p.last = "ReadyNone",
        !.tickAfterEx = @ \/ obs.exhaustedSeen,
        !.tickAfterFail = @ \/ obs.failedAcq]

\* The second instance before it is created; its stream emits nothing
\* unless the specification gives it events.
PeerInit == [hook |-> NoHook,
             rt |-> [available |-> TRUE, handedOut |-> FALSE, calls |-> 0],
             source |-> <<>>, emitted |-> <<>>, delivered |-> <<>>,
             renders |-> 0, polledAt |-> -1]

\* ------------------------------------------------------------------ Init
Init ==
    /\ lifecycle = "new"
    /\ hook = NoHook
    /\ rt \in [available : BOOLEAN, handedOut : {FALSE}, calls : {0}]
    /\ source \in SeqsUpTo(EventVals, MaxEvents)
    /\ producerDone = FALSE
    /\ emitted = <<>>
    /\ delivered = <<>>
    /\ flag = FALSE
    /\ frames = <<>>
    /\ pc = "render"
    /\ lastPoll = NoPoll
    /\ obs = ObsInit
    /\ woken = FALSE
    /\ peer = PeerInit

\* --------------------------------------------------------------- actions
\* A render of the component: its body calls hooks.use_terminal_events(f)
\* with a closure built by this render (identified by the render's number).
RenderStep ==
    /\ lifecycle \in {"new", "mounted"}
    /\ pc \in {"render", "wait"}
    /\ Len(frames) < MaxRenders
    /\ hook' = use_terminal_events(hook, Len(frames) + 1)
    /\ frames' = Append(frames, flag)
    /\ lifecycle' = "mounted"
    /\ pc' = "commit"
    /\ UNCHANGED <<rt, source, producerDone, emitted, delivered, flag,
                   lastPoll, obs>>

Render ==
    /\ RenderStep
    /\ UNCHANGED <<woken, peer>>

\* The runtime calls post_component_update once after each commit.
PostComponentUpdateStep ==
    /\ lifecycle = "mounted"
    /\ pc = "commit"
    /\ hook # NoHook
    /\ LET u == post_component_update(hook[1], rt, producerDone) IN
        /\ hook' = Some(u.self)
        /\ rt' = u.updater
        /\ obs' = ObsAfterUpdate(u)
    /\ pc' = "wait"
    /\ UNCHANGED <<lifecycle, source, producerDone, emitted, delivered, flag,
                   frames, lastPoll>>

PostComponentUpdate ==
    /\ PostComponentUpdateStep
    /\ UNCHANGED <<woken, peer>>

\* What one invocation of poll_change changes (all but the loop's position).
PollChangeStep ==
    /\ hook # NoHook
    /\ LET p == poll_change(hook[1]) IN
        /\ hook' = Some(p.self)
        /\ delivered' = delivered \o Calls(hook[1].f, p.got)
        /\ flag' = (flag \/ p.got # <<>>)
        /\ lastPoll' = [ret |-> p.ret,
                        held |-> Held,
                        avail |-> IF Held THEN Handle.pending ELSE <<>>,
                        got |-> p.got, polls |-> p.polls, last |-> p.last]
        /\ obs' = ObsAfterPoll(p)
    /\ UNCHANGED <<lifecycle, rt, source, producerDone, emitted, frames>>

\* A scheduler tick polls the hook.
PollChange ==
    /\ PollChangeStep
    /\ UNCHANGED <<pc, woken, peer>>

\* What the producer emitting its next event changes.
EmitStep ==
    /\ source # <<>>
    /\ LET e == [n |-> Len(emitted) + 1, val |-> Head(source)] IN
        /\ emitted' = Append(emitted, e)
        /\ hook' = IF Held
                   THEN [hook EXCEPT ![1].events[1] = push_event(@, e)]
                   ELSE hook
    /\ source' = Tail(source)
    /\ UNCHANGED <<lifecycle, rt, producerDone, delivered, flag, frames,
                   lastPoll, obs>>

\* The upstream producer emits an event to whoever is subscribed.
Emit ==
    /\ EmitStep
    /\ UNCHANGED <<pc, woken, peer>>

\* What the producer shutting down changes: subscribers see the end.
ShutdownStep ==
    /\ source = <<>>
    /\ ~producerDone
    /\ producerDone' = TRUE
    /\ hook' = IF Held
               THEN [hook EXCEPT ![1].events[1].closed = TRUE,
                                 ![1].events[1].waker = FALSE]
               ELSE hook
    /\ UNCHANGED <<lifecycle, rt, source, emitted, delivered, flag, frames,
                   lastPoll, obs>>

Shutdown ==
    /\ ShutdownStep
    /\ UNCHANGED <<pc, woken, peer>>

\* The instance is unmounted: its hook state is dropped.
UnmountStep ==
    /\ lifecycle = "mounted"
    /\ lifecycle' = "unmounted"
    /\ hook' = drop_hook(hook[1])
    /\ obs' = [obs EXCEPT !.dropAt = Len(emitted),
                          !.dropped = IF Held THEN Handle.pending
                                      ELSE <<>>]
    /\ pc' = "done"
    /\ UNCHANGED <<rt, source, producerDone, emitted, delivered, flag,
                   frames, lastPoll>>

Unmount ==
    /\ UnmountStep
    /\ UNCHANGED <<woken, peer>>

Next ==
    \/ Render
    \/ PostComponentUpdate
    \/ PollChange
    \/ Emit
    \/ Shutdown
    \/ Unmount

Spec == Init /\ [][Next]_vars

\* The same program while the instance stays mounted, under a scheduler
\* that keeps ticking: poll_change is invoked again for as long as invoking
\* it would do something.
MountedNext ==
    \/ Render
    \/ PostComponentUpdate
    \/ PollChange
    \/ Emit
    \/ Shutdown

FairSpec ==
    /\ Init
    /\ [][MountedNext]_vars
    /\ WF_vars(PollChange)

\* ------------------------------------------------------ two instances
\* Two component instances, each registering the hook and each with a
\* stream of its own; one event is emitted on the first instance's stream.
PeerHeld == peer.hook # NoHook /\ peer.hook[1].events # None

TwoInit ==
    /\ lifecycle = "new"
    /\ hook = NoHook
    /\ rt = [available |-> TRUE, handedOut |-> FALSE, calls |-> 0]
    /\ source \in {<<v>> : v \in EventVals}
    /\ producerDone = FALSE
    /\ emitted = <<>>
    /\ delivered = <<>>
    /\ flag = FALSE
    /\ frames = <<>>
    /\ pc = "render"
    /\ lastPoll = NoPoll
    /\ obs = ObsInit
    /\ woken = FALSE
    /\ peer \in {[PeerInit EXCEPT !.source = q] :
                    q \in SeqsUpTo({"P"}, MaxPeerEvents)}

\* An update of the second instance: its body calls use_terminal_events
\* with its own closure, then its hook's post_component_update runs.
PeerUpdate ==
    /\ peer.renders < MaxPeerRenders
    /\ LET h == use_terminal_events(peer.hook, -(peer.renders + 1))
           u == post_component_update(h[1], peer.rt, FALSE) IN
        peer' = [peer EXCEPT !.hook = Some(u.self), !.rt = u.updater,
                             !.renders = @ + 1]
    /\ UNCHANGED <<lifecycle, hook, rt, source, producerDone, emitted,
                   delivered, flag, frames, pc, lastPoll, obs, woken>>

\* A tick polls the second instance's hook.
PeerPollChange ==
    /\ peer.hook # NoHook
    /\ LET p == poll_change(peer.hook[1]) IN
        peer' = [peer EXCEPT
                    !.hook = Some(p.self),
                    !.delivered = @ \o Calls(peer.hook[1].f, p.got),
                    !.polledAt = Len(emitted)]
    /\ UNCHANGED <<lifecycle, hook, rt, source, producerDone, emitted,
                   delivered, flag, frames, pc, lastPoll, obs, woken>>

\* The producer emits an event on the second instance's stream.
PeerEmit ==
    /\ peer.source # <<>>
    /\ LET e == [n |-> Len(peer.emitted) + 1, val |-> Head(peer.source)] IN
        peer' = [peer EXCEPT
                    !.source = Tail(@),
                    !.emitted = Append(@, e),
                    !.hook = IF PeerHeld
                             THEN [@ EXCEPT ![1].events[1] = push_event(@, e)]
                             ELSE @]
    /\ UNCHANGED <<lifecycle, hook, rt, source, producerDone, emitted,
                   delivered, flag, frames, pc, lastPoll, obs, woken>>

TwoNext ==
    \/ Render
    \/ PostComponentUpdate
    \/ PollChange
    \/ Emit
    \/ PeerUpdate
    \/ PeerPollChange
    \/ PeerEmit

TwoSpec == TwoInit /\ [][TwoNext]_vars

\* ------------------------------------------- a wake-driven scheduler
\* The hook host polls the hooks of a component once after every update of
\* it, and afterwards only when the task was woken: by the stream, when an
\* event (or the end) arrives at a handle whose last poll registered the
\* waker.
wakes(h) == h.waker

WakeRender ==
    /\ RenderStep
    /\ UNCHANGED <<woken, peer>>

WakeCommit ==
    /\ PostComponentUpdateStep
    /\ woken' = TRUE
    /\ UNCHANGED peer

WakeTick ==
    /\ woken
    /\ PollChangeStep
    /\ woken' = FALSE
    /\ UNCHANGED <<pc, peer>>

WakeEmit ==
    /\ EmitStep
    /\ woken' = (woken \/ (Held /\ wakes(Handle)))
    /\ UNCHANGED <<pc, peer>>

WakeShutdown ==
    /\ ShutdownStep
    /\ woken' = (woken \/ (Held /\ wakes(Handle)))
    /\ UNCHANGED <<pc, peer>>

WakeNext ==
    \/ WakeRender
    \/ WakeCommit
    \/ WakeTick
    \/ WakeEmit
    \/ WakeShutdown

\* An outstanding poll is eventually run; the instance stays mounted.
WakeSpec ==
    /\ Init
    /\ [][WakeNext]_vars
    /\ WF_vars(WakeTick)

\* ------------------------------------------------------- the render loop
\* The render loop of tests::test_use_terminal_events: MyComponent is the
\* root, its callback sets should_exit, the mock terminal is fed a finite,
\* non-empty stream of events, and the loop ends after the render that
\* finds should_exit set.
LoopInit ==
    /\ lifecycle = "new"
    /\ hook = NoHook
    /\ rt = [available |-> TRUE, handedOut |-> FALSE, calls |-> 0]
    /\ source \in SeqsUpTo(EventVals, MaxEvents) \ {<<>>}
    /\ producerDone = FALSE
    /\ emitted = <<>>
    /\ delivered = <<>>
    /\ flag = FALSE
    /\ frames = <<>>
    /\ pc = "render"
    /\ lastPoll = NoPoll
    /\ obs = ObsInit
    /\ woken = FALSE
    /\ peer = PeerInit

\* One pass of the loop's render: the component body runs (calling
\* use_terminal_events and reading should_exit), the frame is produced and
\* committed, post_component_update runs, and the loop ends if exit was
\* requested.
LoopRender ==
    /\ pc = "render"
    /\ LET h == use_terminal_events(hook, Len(frames) + 1)
           u == post_component_update(h[1], rt, producerDone) IN
        /\ hook' = Some(u.self)
        /\ rt' = u.updater
        /\ obs' = ObsAfterUpdate(u)
    /\ frames' = Append(frames, flag)
    /\ lifecycle' = "mounted"
    /\ pc' = IF flag THEN "done" ELSE "wait"
    /\ UNCHANGED <<source, producerDone, emitted, delivered, flag, lastPoll,
                   woken, peer>>

\* While the loop waits, the terminal forwards the next event of its stream.
LoopEmit ==
    /\ pc = "wait"
    /\ EmitStep
    /\ UNCHANGED <<pc, woken, peer>>

\* While the loop waits, the terminal's stream ends.
LoopShutdown ==
    /\ pc = "wait"
    /\ ShutdownStep
    /\ UNCHANGED <<pc, woken, peer>>

\* While the loop waits, the component's hooks are polled; a callback
\* invocation sets should_exit, which makes the loop render again.
LoopTick ==
    /\ pc = "wait"
    /\ PollChangeStep
    /\ pc' = IF delivered' # delivered THEN "render" ELSE "wait"
    /\ UNCHANGED <<woken, peer>>

LoopNext ==
    \/ LoopRender
    \/ LoopEmit
    \/ LoopShutdown
    \/ LoopTick

\* The loop keeps rendering, the terminal keeps forwarding and the
\* scheduler keeps polling for as long as each has something to do.
LoopSpec ==
    /\ LoopInit
    /\ [][LoopNext]_vars
    /\ WF_vars(LoopRender)
    /\ WF_vars(LoopEmit)
    /\ WF_vars(LoopTick)

\* ------------------------------------------------------------ properties
\* The events passed to the callback so far, in order
DeliveredEvents == [i \in 1..Len(delivered) |-> delivered[i].event]

\* The events the held handle was given since it was acquired
Yielded ==
    IF obs.acqAt = -1 THEN <<>>
    ELSE SubSeq(emitted, obs.acqAt + 1,
                IF obs.dropAt = -1 THEN Len(emitted) ELSE obs.dropAt)

\* How many events the producer emitted before the first acquisition
PreAcqCount == IF obs.acqAt = -1 THEN Len(emitted) ELSE obs.acqAt

\* C1: every invocation of poll_change returns Pending, whatever the hook
\* state was and however many events it drained.
C1_NeverReportsChanged ==
    lastPoll.ret # "NotCalled" => lastPoll.ret = "Pending"

\* an invocation that drained two events, and still returned Pending
C1_Witness ==
    /\ lastPoll.ret = "Pending"
    /\ lastPoll.held
    /\ Len(lastPoll.got) >= 2

\* C2: with a handle held and N events buffered when poll_change is
\* invoked, that invocation calls the callback exactly N times, with those
\* events in FIFO order.
C2_DrainCompleteness ==
    lastPoll.held =>
        LET n == Len(lastPoll.avail) IN
        /\ lastPoll.got = lastPoll.avail
        /\ Len(delivered) >= n
        /\ \A i \in 1..n :
              delivered[Len(delivered) - n + i].event = lastPoll.avail[i]

\* the scenario of the spec: A then B buffered, one invocation
C2_Witness ==
    /\ lastPoll.held
    /\ Len(lastPoll.avail) = 2
    /\ lastPoll.avail[1].val = "A"
    /\ lastPoll.avail[2].val = "B"

\* C3: the events passed to the callback are always a prefix of the events
\* the handle was given after acquisition: none skipped, repeated, merged
\* or reordered.
C3_DeliveredIsPrefix ==
    /\ Len(DeliveredEvents) <= Len(Yielded)
    /\ DeliveredEvents = SubSeq(Yielded, 1, Len(DeliveredEvents))

\* two events delivered, a third given to the handle and not yet delivered
C3_Witness ==
    /\ Len(delivered) >= 2
    /\ Len(Yielded) > Len(delivered)

\* C4: once a handle is held, no step calls the acquisition factory or
\* replaces the handle, and post_component_update leaves the hook as it is.
C4_AtMostOnceAcquisition ==
    [][Held =>
          /\ rt' = rt
          /\ hook' # NoHook =>
                /\ hook'[1].events # None
                /\ hook'[1].events[1].id = Handle.id
          /\ PostComponentUpdate => hook' = hook]_vars

\* two post-update cycles have run, the factory was called once
C4_Witness ==
    /\ Held
    /\ obs.postUpdates >= 2
    /\ rt.calls = 1

\* C5: once poll_change has seen the stream end, no step invokes the
\* callback and no step calls the acquisition factory.
C5_PostExhaustionSilence ==
    [][obs.exhaustedSeen =>
          /\ delivered' = delivered
          /\ rt'.calls = rt.calls]_vars

\* the end was seen, and a tick and a post-update cycle came after it
C5_Witness ==
    /\ obs.exhaustedSeen
    /\ obs.tickAfterEx
    /\ obs.updateAfterEx

\* C6: no event the producer emitted before the first successful
\* acquisition is ever passed to the callback.
C6_PreAcquisitionSilence ==
    \A i \in 1..Len(delivered) : delivered[i].event.n > PreAcqCount

\* events were emitted before acquisition, and a later one was delivered
C6_Witness ==
    /\ obs.acqAt >= 1
    /\ Len(delivered) >= 1

\* C7: in the render loop of the test, the first frame shows the flag unset
\* and no callback has run before it, and the loop terminates having
\* produced exactly two frames, the second after a delivery, flag set.
C7_TwoFramesThenExit ==
    /\ [](frames = <<>> => delivered = <<>>)
    /\ [](frames # <<>> => frames[1] = FALSE)
    /\ [](pc = "done" => frames = <<FALSE, TRUE>> /\ delivered # <<>>)
    /\ <>(pc = "done")

\* the loop has ended with the two frames of the test
C7_Witness ==
    /\ pc = "done"
    /\ frames = <<FALSE, TRUE>>
    /\ Len(delivered) >= 1
    /\ obs.postUpdates = 2

\* C8: after the instance is unmounted the callback is never invoked.
C8_NoDeliveryAfterUnmount ==
    [][lifecycle = "unmounted" => delivered' = delivered]_vars

\* unmounted with an event still queued, and an event produced afterwards
C8_Witness ==
    /\ lifecycle = "unmounted"
    /\ obs.acqAt # -1
    /\ obs.dropped # <<>>
    /\ Len(emitted) > obs.dropAt

\* C9 as stated: after an acquisition attempt yielded absent the hook never
\* holds a handle, keeps returning Pending, never invokes the callback and
\* never calls the factory again.
C9_NoRetryAfterAbsent ==
    [][obs.failedAcq =>
          /\ hook' # NoHook => hook'[1].events = None
          /\ lastPoll'.ret \in {"NotCalled", "Pending"}
          /\ delivered' = delivered
          /\ rt'.calls = rt.calls]_vars

\* C9 amended: after an acquisition attempt yielded absent the hook never
\* holds a handle, keeps returning Pending and never invokes the callback;
\* every later post_component_update calls the factory again, to no effect.
C9_AbsentIsPermanent ==
    [][obs.failedAcq =>
          /\ hook' # NoHook => hook'[1].events = None
          /\ lastPoll'.ret \in {"NotCalled", "Pending"}
          /\ delivered' = delivered
          /\ PostComponentUpdate =>
                /\ rt'.calls = rt.calls + 1
                /\ hook' = hook]_vars

\* an attempt failed; a tick and a post-update cycle came after it
C9_Witness ==
    /\ obs.failedAcq
    /\ obs.tickAfterFail
    /\ obs.updateAfterFail
    /\ source = <<>>

\* C10: the callback stored at creation stays; a later render's call of
\* use_terminal_events changes neither the callback nor the handle.
C10_CallbackFixed ==
    [][hook # NoHook =>
          /\ hook' # NoHook => hook'[1].f = hook[1].f
          /\ Render => hook' = hook]_vars

\* a second render ran with the handle held; the first callback is stored
C10_Witness ==
    /\ Held
    /\ Len(frames) >= 2
    /\ hook[1].f = 1
    /\ delivered # <<>>

\* C12: after poll_change has seen the stream end, no later invocation of
\* poll_change calls the handle's try-next operation again.
C12_NoRepollAfterExhaustion ==
    obs.tickAfterEx => lastPoll.polls = 0

\* C13: with no handle held, poll_change returns Pending with no try-next
\* and no callback invocation, calls no factory and leaves the hook as it is.
C13_AbsentHandleIsIdle ==
    [][(hook # NoHook /\ ~Held /\ PollChange) =>
          /\ lastPoll'.ret = "Pending"
          /\ lastPoll'.polls = 0
          /\ lastPoll'.got = <<>>
          /\ delivered' = delivered
          /\ rt' = rt
          /\ hook' = hook]_vars

\* polled with no handle while the producer had already emitted an event
C13_Witness ==
    /\ hook # NoHook
    /\ ~Held
    /\ lastPoll.ret = "Pending"
    /\ ~lastPoll.held
    /\ Len(emitted) >= 1
    /\ source # <<>>

\* C14: the handle is absent from creation until the first
\* post_component_update; if the factory yields a handle there, it is held
\* right after that call and in every later state until unmount.
C14_LazyAcquisition ==
    /\ (hook # NoHook /\ obs.postUpdates = 0) => hook[1].events = None
    /\ (lifecycle = "mounted" /\ obs.postUpdates >= 1 /\ rt.available) =>
          (Held /\ Handle.id = 1 /\ rt.calls = 1)

\* the handle acquired by the first post-update is still held after a
\* second one and after the stream ended
C14_Witness ==
    /\ lifecycle = "mounted"
    /\ Held
    /\ obs.postUpdates >= 2
    /\ obs.exhaustedSeen
    /\ obs.tickAfterEx

\* C17: poll_change never changes whether a handle is held, and
\* post_component_update never invokes the callback nor consumes an event.
C17_SeparateEffects ==
    [][/\ PollChange =>
            /\ (hook'[1].events # None) <=> Held
            /\ rt' = rt
       /\ PostComponentUpdate =>
            /\ delivered' = delivered
            /\ flag' = flag
            /\ Held => hook' = hook]_vars

\* events were delivered by ticks, and an event is still queued in the
\* handle after two post-update cycles
C17_Witness ==
    /\ Held
    /\ Handle.pending # <<>>
    /\ delivered # <<>>
    /\ obs.postUpdates >= 2

\* C15: while the scheduler keeps invoking poll_change and the instance
\* stays mounted, every event given to the held handle after acquisition is
\* eventually passed to the callback.
C15_EveryEventDelivered ==
    []<>(DeliveredEvents = Yielded)

\* every event of a full-length stream was given to the handle and delivered
C15_Witness ==
    /\ lifecycle = "mounted"
    /\ Len(Yielded) = MaxEvents
    /\ DeliveredEvents = Yielded
    /\ obs.exhaustedSeen

C11_InstancesIndependent ==
    /\ [](\A i \in 1..Len(peer.delivered) :
            /\ peer.delivered[i].event.val = "P"
            /\ peer.delivered[i].f < 0)
    /\ [](\A i \in 1..Len(delivered) :
            /\ delivered[i].event.val \in EventVals
            /\ delivered[i].f > 0)
    /\ [](Len(peer.delivered) <= Len(peer.emitted))
    /\ [][(Emit \/ PollChange \/ PostComponentUpdate \/ Render)
            => peer' = peer]_vars

\* the first instance's event was emitted and delivered to its callback,
\* and the second instance, holding its own handle, was polled afterwards
C11_Witness ==
    /\ Len(emitted) = 1
    /\ Len(delivered) = 1
    /\ PeerHeld
    /\ peer.polledAt = 1
    /\ peer.delivered = <<>>

====
